---- MODULE Spec2Model ----
(***************************************************************************)
(* Model of gambitai/ecs/components.py: the Position, Piece and Move value *)
(* types with their string renderings, and the GameState aggregate with    *)
(* its add_move bookkeeping and its query helpers.                         *)
(***************************************************************************)
EXTENDS Integers, Sequences, FiniteSets, TLC

\* ------------------------------------------------------------------ bounds
\* longest move_history explored
MaxMoves == 2
\* longest check_positions list explored
MaxChecks == 1

\* ------------------------------------------------------------- value types
\* Optional[T]: None, or a one-element tuple holding the value
None == <<>>
Some(v) == <<v>>
Get(o) == o[1]

PieceType == {"PAWN", "KNIGHT", "BISHOP", "ROOK", "QUEEN", "KING"}
PieceColor == {"WHITE", "BLACK"}
GameStatus == {"ACTIVE", "CHECK", "CHECKMATE", "STALEMATE", "DRAW"}

\* the member names, letter by letter
EnumName(t) ==
    CASE t = "PAWN"   -> <<"P", "A", "W", "N">>
      [] t = "KNIGHT" -> <<"K", "N", "I", "G", "H", "T">>
      [] t = "BISHOP" -> <<"B", "I", "S", "H", "O", "P">>
      [] t = "ROOK"   -> <<"R", "O", "O", "K">>
      [] t = "QUEEN"  -> <<"Q", "U", "E", "E", "N">>
      [] t = "KING"   -> <<"K", "I", "N", "G">>

UpperLetters == <<"A","B","C","D","E","F","G","H","I","J","K","L","M",
                  "N","O","P","Q","R","S","T","U","V","W","X","Y","Z">>
LowerLetters == <<"a","b","c","d","e","f","g","h","i","j","k","l","m",
                  "n","o","p","q","r","s","t","u","v","w","x","y","z">>

\* str.lower() on one character
Lower(c) ==
    IF \E i \in 1..26 : UpperLetters[i] = c
    THEN LowerLetters[CHOOSE i \in 1..26 : UpperLetters[i] = c]
    ELSE c

\* str.upper() on one character
Upper(c) ==
    IF \E i \in 1..26 : LowerLetters[i] = c
    THEN UpperLetters[CHOOSE i \in 1..26 : LowerLetters[i] = c]
    ELSE c

RECURSIVE Join(_)
Join(cs) == IF cs = <<>> THEN "" ELSE Head(cs) \o Join(Tail(cs))

\* str.title() on a single word: first letter upper, the rest lower
Title(cs) == [i \in 1..Len(cs) |-> IF i = 1 THEN Upper(cs[i]) ELSE Lower(cs[i])]

\* PieceType.__str__
PieceTypeStr(t) == Join(Title(EnumName(t)))

files == <<"a", "b", "c", "d", "e", "f", "g", "h">>
ranks == <<"8", "7", "6", "5", "4", "3", "2", "1">>

Pos(x, y) == [x |-> x, y |-> y]

\* Position.__str__
PositionStr(p) == files[p.x + 1] \o ranks[p.y + 1]

Pc(t, c) == [type |-> t, color |-> c, has_moved |-> FALSE, value |-> 1]

FenSymbol(t) ==
    CASE t = "PAWN"   -> "P"
      [] t = "KNIGHT" -> "N"
      [] t = "BISHOP" -> "B"
      [] t = "ROOK"   -> "R"
      [] t = "QUEEN"  -> "Q"
      [] t = "KING"   -> "K"

\* Piece.to_fen
to_fen(p) == IF p.color = "WHITE" THEN FenSymbol(p.type) ELSE Lower(FenSymbol(p.type))

Mv(f, t, p, cap, castle, ep, promo, promoPiece) ==
    [from_pos |-> f, to_pos |-> t, piece |-> p, captured_piece |-> cap,
     is_castling |-> castle, is_en_passant |-> ep, is_promotion |-> promo,
     promotion_piece |-> promoPiece]

\* variant: king-side castling also when the files are equal
MoveStr_Ge(m) ==
    IF m.is_castling
    THEN IF m.to_pos.x >= m.from_pos.x THEN "O-O" ELSE "O-O-O"
    ELSE LET base == to_fen(m.piece) \o PositionStr(m.from_pos) \o PositionStr(m.to_pos)
             cap  == IF m.captured_piece # None
                     THEN base \o "x" \o to_fen(Get(m.captured_piece))
                     ELSE base
             ep   == IF m.is_en_passant THEN cap \o "e.p." ELSE cap
         IN  IF m.is_promotion /\ m.promotion_piece # None
             THEN ep \o "=" \o PieceTypeStr(Get(m.promotion_piece))
             ELSE ep

\* Move.__str__
MoveStr(m) ==
    IF m.is_castling
    THEN IF m.to_pos.x > m.from_pos.x THEN "O-O" ELSE "O-O-O"
    ELSE LET base == to_fen(m.piece) \o PositionStr(m.from_pos) \o PositionStr(m.to_pos)
             cap  == IF m.captured_piece # None
                     THEN base \o "x" \o to_fen(Get(m.captured_piece))
                     ELSE base
             ep   == IF m.is_en_passant THEN cap \o "e.p." ELSE cap
         IN  IF m.is_promotion /\ m.promotion_piece # None
             THEN ep \o "=" \o PieceTypeStr(Get(m.promotion_piece))
             ELSE ep

\* ------------------------------------------------------------------ state
VARIABLES
    current_turn,       \* GameState.current_turn
    status,             \* GameState.status
    castling_rights,    \* GameState.castling_rights, [K, Q, k, q]
    en_passant_target,  \* GameState.en_passant_target
    move_history,       \* GameState.move_history
    halfmove_clock,     \* GameState.halfmove_clock
    fullmove_number,    \* GameState.fullmove_number
    captured_pieces,    \* GameState.captured_pieces
    check_positions,    \* GameState.check_positions
    pieces,             \* GameState.pieces
    ret,                \* the latest method call on the state and what it returned
    move_in,            \* the Move handed to str(), if any
    rendered            \* what str(move_in) returned, once called

fields == <<current_turn, status, castling_rights, en_passant_target, move_history,
            halfmove_clock, fullmove_number, captured_pieces, check_positions, pieces>>
vars == <<current_turn, status, castling_rights, en_passant_target, move_history,
          halfmove_clock, fullmove_number, captured_pieces, check_positions, pieces,
          ret, move_in, rendered>>

Call(op, arg, val) == [op |-> op, arg |-> arg, val |-> val]
NoCall == Call("none", None, None)

\* ----------------------------------------------------------------- inputs
WhitePawn == Pc("PAWN", "WHITE")
BlackPawn == Pc("PAWN", "BLACK")
WhiteKnight == Pc("KNIGHT", "WHITE")
BlackKnight == Pc("KNIGHT", "BLACK")
WhiteKing == Pc("KING", "WHITE")
BlackKing == Pc("KING", "BLACK")
BlackQueen == Pc("QUEEN", "BLACK")

\* the moves handed to add_move: a promoting pawn move, a castling move,
\* a capture by a knight and an en-passant capture
SampleMoves ==
    { Mv(Pos(0, 1), Pos(0, 0), WhitePawn, None, FALSE, FALSE, TRUE, Some("QUEEN")),
      Mv(Pos(4, 0), Pos(6, 0), BlackKing, None, TRUE, FALSE, FALSE, None),
      Mv(Pos(2, 2), Pos(3, 3), WhiteKnight, Some(BlackPawn), FALSE, FALSE, FALSE, None),
      Mv(Pos(3, 4), Pos(2, 5), BlackPawn, Some(WhitePawn), FALSE, TRUE, FALSE, None) }

\* the side codes handed to can_castle: the four known ones and another
SideCodes == {"K", "Q", "k", "q", "x"}

CheckSquares == {Pos(4, 0)}
EnPassantSquares == {Pos(3, 5)}
BoardSquares == {Pos(2, 2)}
BoardPieces == {WhiteKnight}

\* the moves handed to str()
RenderSquares == {Pos(0, 1), Pos(4, 0), Pos(6, 0), Pos(7, 7)}
RenderPieces == {WhitePawn, WhiteKing, BlackQueen, BlackKnight}
RenderCaptured == {None, Some(BlackPawn), Some(WhiteKnight)}
RenderPromotions == {None, Some("QUEEN"), Some("KNIGHT")}
RenderMoves ==
    { Mv(f, t, p, cap, castle, ep, promo, pp) :
        f \in RenderSquares, t \in RenderSquares, p \in RenderPieces,
        cap \in RenderCaptured, castle \in BOOLEAN, ep \in BOOLEAN,
        promo \in BOOLEAN, pp \in RenderPromotions }

\* ------------------------------------------------------------- GameState
\* GameState(): the dataclass defaults
Fresh ==
    /\ current_turn = "WHITE"
    /\ status = "ACTIVE"
    /\ castling_rights = <<1, 1, 1, 1>>
    /\ en_passant_target = None
    /\ move_history = <<>>
    /\ halfmove_clock = 0
    /\ fullmove_number = 1
    /\ captured_pieces = <<>>
    /\ check_positions = <<>>
    /\ pieces = <<>>

Init ==
    /\ Fresh
    /\ ret = NoCall
    /\ move_in = None
    /\ rendered = None

\* add_move, line 153
NextMoveHistory(h, m) == Append(h, m)

\* variant: a capture by a piece other than a pawn does not reset the clock
NextHalfmoveClock_PawnOnly(clock, m) ==
    IF m.piece.type = "PAWN" THEN 0 ELSE clock + 1

\* add_move, lines 155-158
NextHalfmoveClock(clock, m) ==
    IF m.piece.type = "PAWN" \/ m.captured_piece # None THEN 0 ELSE clock + 1

\* variant: counts the moves of White pieces
NextFullmoveNumber_OnWhite(n, m) == IF m.piece.color = "WHITE" THEN n + 1 ELSE n

\* variant: counts every move
NextFullmoveNumber_Always(n, m) == n + 1

\* add_move, lines 160-161
NextFullmoveNumber(n, m) == IF m.piece.color = "BLACK" THEN n + 1 ELSE n

\* variant: the captured piece goes to the front of the list
NextCapturedPieces_Prepend(cp, m) ==
    IF m.captured_piece # None THEN <<Get(m.captured_piece)>> \o cp ELSE cp

\* add_move, lines 163-164
NextCapturedPieces(cp, m) ==
    IF m.captured_piece # None THEN Append(cp, Get(m.captured_piece)) ELSE cp

\* variant: the turn always passes to Black
NextTurn_AlwaysBlack(turn) == "BLACK"

\* add_move, lines 166-170
NextTurn(turn) == IF turn = "WHITE" THEN "BLACK" ELSE "WHITE"

\* the assignments add_move makes
AddMoveFields(m) ==
    /\ move_history' = NextMoveHistory(move_history, m)
    /\ halfmove_clock' = NextHalfmoveClock(halfmove_clock, m)
    /\ fullmove_number' = NextFullmoveNumber(fullmove_number, m)
    /\ captured_pieces' = NextCapturedPieces(captured_pieces, m)
    /\ current_turn' = NextTurn(current_turn)

\* variant: add_move also forgets the en-passant target
AddMove_ClearsEnPassant(m) ==
    /\ AddMoveFields(m)
    /\ ret' = Call("add_move", Some(m), None)
    /\ en_passant_target' = None
    /\ UNCHANGED <<status, castling_rights, check_positions, pieces, move_in, rendered>>

\* variant: add_move refuses a move once the game is over or out of turn
AddMove_Checked(m) ==
    /\ status \in {"ACTIVE", "CHECK"}
    /\ m.piece.color = current_turn
    /\ AddMoveFields(m)
    /\ ret' = Call("add_move", Some(m), None)
    /\ UNCHANGED <<status, castling_rights, en_passant_target, check_positions, pieces,
                   move_in, rendered>>

\* GameState.add_move(move)
AddMove(m) ==
    /\ AddMoveFields(m)
    /\ ret' = Call("add_move", Some(m), None)
    /\ UNCHANGED <<status, castling_rights, en_passant_target, check_positions, pieces,
                   move_in, rendered>>

\* variant: returns the first move of the history
get_last_move_First(h) == IF Len(h) > 0 THEN Some(h[1]) ELSE None

\* GameState.get_last_move: its return value
get_last_move(h) == IF Len(h) > 0 THEN Some(h[Len(h)]) ELSE None

\* GameState.is_in_check: its return value
is_in_check(cp) == Len(cp) > 0

\* variant: the two Black flags are looked up the wrong way round
can_castle_Swapped(rights, side) ==
    IF side = "K" THEN rights[1] = 1
    ELSE IF side = "Q" THEN rights[2] = 1
    ELSE IF side = "k" THEN rights[4] = 1
    ELSE IF side = "q" THEN rights[3] = 1
    ELSE FALSE

\* GameState.can_castle: its return value
can_castle(rights, side) ==
    IF side = "K" THEN rights[1] = 1
    ELSE IF side = "Q" THEN rights[2] = 1
    ELSE IF side = "k" THEN rights[3] = 1
    ELSE IF side = "q" THEN rights[4] = 1
    ELSE FALSE

GetLastMove ==
    /\ ret' = Call("get_last_move", None, get_last_move(move_history))
    /\ UNCHANGED <<fields, move_in, rendered>>

IsInCheck ==
    /\ ret' = Call("is_in_check", None, Some(is_in_check(check_positions)))
    /\ UNCHANGED <<fields, move_in, rendered>>

CanCastle(side) ==
    /\ ret' = Call("can_castle", Some(side), Some(can_castle(castling_rights, side)))
    /\ UNCHANGED <<fields, move_in, rendered>>

\* ---------------------------------------- field writes by the collaborators
SetStatus(s) ==
    /\ s # status
    /\ status' = s
    /\ ret' = NoCall
    /\ UNCHANGED <<current_turn, castling_rights, en_passant_target, move_history,
                   halfmove_clock, fullmove_number, captured_pieces, check_positions,
                   pieces, move_in, rendered>>

RevokeCastling(i) ==
    /\ castling_rights[i] = 1
    /\ castling_rights' = [castling_rights EXCEPT ![i] = 0]
    /\ ret' = NoCall
    /\ UNCHANGED <<current_turn, status, en_passant_target, move_history,
                   halfmove_clock, fullmove_number, captured_pieces, check_positions,
                   pieces, move_in, rendered>>

AppendCheckPosition(p) ==
    /\ Len(check_positions) < MaxChecks
    /\ check_positions' = Append(check_positions, p)
    /\ ret' = NoCall
    /\ UNCHANGED <<current_turn, status, castling_rights, en_passant_target, move_history,
                   halfmove_clock, fullmove_number, captured_pieces,
                   pieces, move_in, rendered>>

SetEnPassantTarget(t) ==
    /\ t # en_passant_target
    /\ en_passant_target' = t
    /\ ret' = NoCall
    /\ UNCHANGED <<current_turn, status, castling_rights, move_history,
                   halfmove_clock, fullmove_number, captured_pieces, check_positions,
                   pieces, move_in, rendered>>

PlacePiece(p, pc) ==
    /\ p \notin DOMAIN pieces
    /\ pieces' = [q \in DOMAIN pieces \cup {p} |-> IF q = p THEN pc ELSE pieces[q]]
    /\ ret' = NoCall
    /\ UNCHANGED <<current_turn, status, castling_rights, en_passant_target, move_history,
                   halfmove_clock, fullmove_number, captured_pieces, check_positions,
                   move_in, rendered>>

Next ==
    \/ \E m \in SampleMoves : Len(move_history) < MaxMoves /\ AddMove(m)
    \/ GetLastMove
    \/ IsInCheck
    \/ \E side \in SideCodes : CanCastle(side)
    \/ \E s \in GameStatus : SetStatus(s)
    \/ \E i \in 1..4 : RevokeCastling(i)
    \/ \E p \in CheckSquares : AppendCheckPosition(p)
    \/ \E t \in {None} \cup {Some(p) : p \in EnPassantSquares} : SetEnPassantTarget(t)
    \/ \E p \in BoardSquares, pc \in BoardPieces : PlacePiece(p, pc)

Spec == Init /\ [][Next]_vars

\* ------------------------------------------------------------- str(move)
InitRender ==
    /\ Fresh
    /\ ret = NoCall
    /\ move_in \in {Some(m) : m \in RenderMoves}
    /\ rendered = None

RenderMove ==
    /\ move_in # None
    /\ rendered = None
    /\ rendered' = Some(MoveStr(Get(move_in)))
    /\ UNCHANGED <<fields, ret, move_in>>

NextRender == RenderMove

SpecRender == InitRender /\ [][NextRender]_vars

\* ================================================================ properties
\* the step just taken was add_move(m)
AddMoveCalled(m) == ret' = Call("add_move", Some(m), None)

IsPawnOrCapture(m) == m.piece.type = "PAWN" \/ m.captured_piece # None
Last(h) == h[Len(h)]

\* C1: a fresh state has White to move, every add_move hands the turn to the
\* other colour whatever the colour of the moved piece, and so it is White's
\* turn exactly when the number of moves added is even.
Thm_C1 ==
    /\ [](current_turn = "WHITE" <=> Len(move_history) % 2 = 0)
    /\ [][\A m \in SampleMoves : AddMoveCalled(m) =>
            /\ current_turn' \in PieceColor
            /\ current_turn' # current_turn]_vars

\* two pieces of the same colour moved in a row and the turn is back to White
Wit_C1 ==
    /\ ret.op = "add_move"
    /\ Len(move_history) = 2
    /\ move_history[1].piece.color = move_history[2].piece.color
    /\ current_turn = "WHITE"

\* C2: add_move sets halfmove_clock to 0 for a pawn move or a capture,
\* whatever the clock was, and otherwise to its previous value plus one; the
\* clock is never negative.
Thm_C2 ==
    /\ [](halfmove_clock >= 0)
    /\ [][\A m \in SampleMoves : AddMoveCalled(m) =>
            /\ IsPawnOrCapture(m) => halfmove_clock' = 0
            /\ ~IsPawnOrCapture(m) => halfmove_clock' = halfmove_clock + 1]_vars

\* a capture by a knight has reset a clock that a castling move had put at 1
Wit_C2 ==
    /\ ret.op = "add_move"
    /\ Len(move_history) = 2
    /\ ~IsPawnOrCapture(move_history[1])
    /\ move_history[2].piece.type # "PAWN"
    /\ move_history[2].captured_piece # None
    /\ halfmove_clock = 0

\* the Black-piece moves of a history
BlackMoves(h) == {i \in 1..Len(h) : h[i].piece.color = "BLACK"}

\* C3: fullmove_number starts at 1, add_move adds one to it exactly when the
\* moved piece is Black and leaves it alone for a White piece, so it is always
\* one more than the number of Black-piece moves in the history.
Thm_C3 ==
    /\ [](fullmove_number = 1 + Cardinality(BlackMoves(move_history)))
    /\ [][\A m \in SampleMoves : AddMoveCalled(m) =>
            /\ m.piece.color = "BLACK" => fullmove_number' = fullmove_number + 1
            /\ m.piece.color = "WHITE" => fullmove_number' = fullmove_number]_vars

\* a White move after a Black move: the number went up once and then stayed
Wit_C3 ==
    /\ ret.op = "add_move"
    /\ Len(move_history) = 2
    /\ move_history[1].piece.color = "BLACK"
    /\ move_history[2].piece.color = "WHITE"
    /\ fullmove_number = 2

\* the captured pieces of the capturing moves of a history, in history order
RECURSIVE CapturesOf(_)
CapturesOf(h) ==
    IF h = <<>> THEN <<>>
    ELSE IF Head(h).captured_piece # None
         THEN <<Get(Head(h).captured_piece)>> \o CapturesOf(Tail(h))
         ELSE CapturesOf(Tail(h))

\* C4: add_move appends the move's captured piece to the end of
\* captured_pieces exactly when the move carries one and leaves the list alone
\* otherwise, so the list is always the captured pieces of the capturing moves
\* of the history, in history order.
Thm_C4 ==
    /\ [](captured_pieces = CapturesOf(move_history))
    /\ [][\A m \in SampleMoves : AddMoveCalled(m) =>
            /\ m.captured_piece # None =>
                 /\ Len(captured_pieces') = Len(captured_pieces) + 1
                 /\ SubSeq(captured_pieces', 1, Len(captured_pieces)) = captured_pieces
                 /\ Last(captured_pieces') = Get(m.captured_piece)
            /\ m.captured_piece = None => captured_pieces' = captured_pieces]_vars

\* two captures of different pieces, recorded in the order they were made
Wit_C4 ==
    /\ ret.op = "add_move"
    /\ Len(move_history) = 2
    /\ Len(captured_pieces) = 2
    /\ captured_pieces[1] # captured_pieces[2]
    /\ captured_pieces[2] = Get(move_history[2].captured_piece)

\* C5: move_history only grows: add_move puts its argument at the end and
\* keeps what was there as a prefix; get_last_move returns the argument of the
\* most recent add_move, or nothing when no move was added, and writes no
\* field.
Thm_C5 ==
    /\ [](ret.op = "get_last_move" =>
            IF move_history = <<>> THEN ret.val = None
            ELSE ret.val = Some(Last(move_history)))
    /\ [][\A m \in SampleMoves : AddMoveCalled(m) =>
            /\ Len(move_history') = Len(move_history) + 1
            /\ SubSeq(move_history', 1, Len(move_history)) = move_history
            /\ Last(move_history') = m]_vars
    /\ [][(ret.op = "add_move" /\ ret'.op = "get_last_move") => ret'.val = ret.arg]_vars
    /\ [][ret'.op = "get_last_move" => fields' = fields]_vars
    /\ [][ret'.op # "add_move" => move_history' = move_history]_vars

\* get_last_move called after two different moves returned the second
Wit_C5 ==
    /\ ret.op = "get_last_move"
    /\ Len(move_history) = 2
    /\ move_history[1] # move_history[2]
    /\ ret.val = Some(move_history[2])

\* C6: add_move leaves pieces, check_positions, status, castling_rights and
\* en_passant_target as they were, for every move, so is_in_check and
\* can_castle answer the same before and after it.
Thm_C6 ==
    [][\A m \in SampleMoves : AddMoveCalled(m) =>
         /\ pieces' = pieces
         /\ check_positions' = check_positions
         /\ status' = status
         /\ castling_rights' = castling_rights
         /\ en_passant_target' = en_passant_target
         /\ is_in_check(check_positions') = is_in_check(check_positions)
         /\ \A side \in SideCodes :
              can_castle(castling_rights', side) = can_castle(castling_rights, side)]_vars

\* a castling move added to a state whose other fields were all written before
Wit_C6 ==
    /\ ret.op = "add_move"
    /\ Get(ret.arg).is_castling
    /\ pieces # <<>>
    /\ check_positions # <<>>
    /\ status = "CHECK"
    /\ castling_rights = <<0, 0, 1, 1>>
    /\ en_passant_target # None

SideIndex(side) ==
    CASE side = "K" -> 1
      [] side = "Q" -> 2
      [] side = "k" -> 3
      [] side = "q" -> 4

\* what can_castle is to answer for a side code
CastleAnswer(side) ==
    /\ side \in {"K", "Q", "k", "q"}
    /\ castling_rights[SideIndex(side)] = 1

\* C7: can_castle(side) is true exactly when side is K, Q, k or q and the flag
\* at its index (K first, then Q, k, q) is set: true for all four on a fresh
\* state, false only for the code whose flag was cleared, false for any other
\* code; it writes no field.
Thm_C7 ==
    /\ [](\A side \in SideCodes : can_castle(castling_rights, side) = CastleAnswer(side))
    /\ [](ret.op = "can_castle" => ret.val = Some(CastleAnswer(Get(ret.arg))))
    /\ [][ret'.op = "can_castle" => fields' = fields]_vars

\* with only the Black king-side flag cleared, can_castle("k") said no
Wit_C7 ==
    /\ castling_rights = <<1, 1, 0, 1>>
    /\ ret = Call("can_castle", Some("k"), Some(FALSE))

\* C8: add_move can be called in every state and with every move, and makes
\* the same five updates whatever the status, whether or not the moved piece
\* has the colour whose turn it is, and whether or not the move's squares are
\* occupied in pieces.
Thm_C8 ==
    /\ [](\A m \in SampleMoves : ENABLED AddMove(m))
    /\ [][\A m \in SampleMoves : AddMoveCalled(m) =>
            /\ move_history' = move_history \o <<m>>
            /\ halfmove_clock' = (IF IsPawnOrCapture(m) THEN 0 ELSE halfmove_clock + 1)
            /\ fullmove_number' =
                 fullmove_number + (IF m.piece.color = "BLACK" THEN 1 ELSE 0)
            /\ captured_pieces' =
                 captured_pieces \o (IF m.captured_piece # None
                                     THEN <<Get(m.captured_piece)>> ELSE <<>>)
            /\ current_turn' = (IF current_turn = "WHITE" THEN "BLACK" ELSE "WHITE")]_vars

\* after checkmate, a piece moved out of turn from a square pieces does not hold
Wit_C8 ==
    /\ ret.op = "add_move"
    /\ status = "CHECKMATE"
    /\ Get(ret.arg).piece.color = current_turn
    /\ pieces # <<>>
    /\ Get(ret.arg).from_pos \notin DOMAIN pieces
    /\ Len(move_history) = 1

KindTitle(t) ==
    CASE t = "PAWN"   -> "Pawn"
      [] t = "KNIGHT" -> "Knight"
      [] t = "BISHOP" -> "Bishop"
      [] t = "ROOK"   -> "Rook"
      [] t = "QUEEN"  -> "Queen"
      [] t = "KING"   -> "King"

\* the rendering of a move; promotes(m) says when the promotion suffix is due
Rendering(m, promotes(_)) ==
    IF m.is_castling
    THEN IF m.to_pos.x > m.from_pos.x THEN "O-O" ELSE "O-O-O"
    ELSE to_fen(m.piece) \o PositionStr(m.from_pos) \o PositionStr(m.to_pos)
         \o (IF m.captured_piece # None
             THEN "x" \o to_fen(Get(m.captured_piece)) ELSE "")
         \o (IF m.is_en_passant THEN "e.p." ELSE "")
         \o (IF promotes(m)
             THEN "=" \o (IF m.promotion_piece # None
                          THEN KindTitle(Get(m.promotion_piece)) ELSE "")
             ELSE "")

PromotesIfFlagged(m) == m.is_promotion
PromotesIfFlaggedAndKindSet(m) == m.is_promotion /\ m.promotion_piece # None

\* C9 as stated: a castling move renders as O-O or O-O-O by the direction of
\* the files; any other move as letter, from-square, to-square, then "x" and
\* the captured letter, then "e.p.", then "=" and the promotion kind whenever
\* is_promotion is set.
Orig_C9 ==
    rendered # None => Get(rendered) = Rendering(Get(move_in), PromotesIfFlagged)

\* C9 as amended: the same, but the "=" suffix is written only when
\* is_promotion is set and a promotion kind is present.
Thm_C9 ==
    rendered # None => Get(rendered) = Rendering(Get(move_in), PromotesIfFlaggedAndKindSet)

\* a promoting en-passant capture rendered with its three suffixes in order
Wit_C9 ==
    /\ move_in # None
    /\ ~Get(move_in).is_castling
    /\ Get(move_in).is_promotion
    /\ Get(move_in).is_en_passant
    /\ rendered = Some("Pa7e8xpe.p.=Queen")

\* every move was made by a piece of the colour whose turn it was
InTurn(h) ==
    \A i \in 1..Len(h) : h[i].piece.color = (IF i % 2 = 1 THEN "WHITE" ELSE "BLACK")

\* C10 as stated: fullmove_number is always one more than the number of
\* completed pairs of moves in the history.
Orig_C10 == fullmove_number = 1 + (Len(move_history) \div 2)

\* C10 as amended: that holds when every move was made by a piece of the
\* colour whose turn it was; and an add_move of a piece of the colour to move
\* raises fullmove_number exactly when it was Black's turn.
Thm_C10 ==
    /\ [](InTurn(move_history) => fullmove_number = 1 + (Len(move_history) \div 2))
    /\ [][\A m \in SampleMoves : (AddMoveCalled(m) /\ m.piece.color = current_turn) =>
            (fullmove_number' = fullmove_number + 1 <=> current_turn = "BLACK")]_vars

\* White then Black have moved in turn: one pair completed
Wit_C10 ==
    /\ ret.op = "add_move"
    /\ Len(move_history) = 2
    /\ InTurn(move_history)
    /\ fullmove_number = 2

====
